---------------------------- MODULE Spec2Model ----------------------------
(***************************************************************************)
(* Model of src/migrate/graphml_to_neo4j.py: the GraphML -> Neo4J          *)
(* migration (GraphMLToNeo4jMigrator and main).                            *)
(*                                                                         *)
(* The target store is modelled at the level of Cypher's semantics: a set  *)
(* of nodes (internal id, label, property map) and a set of relationships  *)
(* (internal id, endpoints, type, property map).  Every session.run() of   *)
(* the source is one auto-commit transaction: it is applied whole or, when *)
(* the round trip fails, not at all.                                       *)
(***************************************************************************)
EXTENDS Integers, Sequences, FiniteSets, TLC

(***************************************************************************)
(* Bounds of the model.                                                    *)
(***************************************************************************)
\* Longest edge sequence of an input graph.
MaxEdges == 2
\* Most stored nodes of the workspace carrying one entity_id before a run.
MaxCopies == 2
\* Invocations of main() in one behaviour (a run and its re-runs).
RunIds == {1, 2}
\* batch_size of migrate_nodes (100 in the source), scaled to the graphs above.
NodeBatchSize == 1
\* batch_size of migrate_edges (50 in the source), scaled to the graphs above.
EdgeBatchSize == 1

\* Node ids of the input graphs.
Ids == {"A", "B"}

\* The workspace label of the run (--workspace, default "base") and a
\* label of some other workspace sharing the store.
Workspace == "base"
OtherWorkspace == "other"

(***************************************************************************)
(* Strings.  str(source) <= str(target) is Python's lexicographic          *)
(* comparison of code-point sequences.                                     *)
(***************************************************************************)
CodePoints(s) ==
    CASE s = "A" -> <<65>>
      [] s = "B" -> <<66>>
      [] s = "C" -> <<67>>
      [] OTHER -> <<>>

RECURSIVE SeqLeq(_, _)
SeqLeq(s, t) ==
    IF s = <<>> THEN TRUE
    ELSE IF t = <<>> THEN FALSE
    ELSE IF Head(s) < Head(t) THEN TRUE
    ELSE IF Head(s) > Head(t) THEN FALSE
    ELSE SeqLeq(Tail(s), Tail(t))

StrLeq(a, b) == SeqLeq(CodePoints(a), CodePoints(b))

(***************************************************************************)
(* Attribute values.  A value of the in-memory graph is <<kind, text>>     *)
(* where text is what str() (json.dumps() for a list or dict) renders; a   *)
(* stored value is <<"str", text>> or <<"float", text>>.                   *)
(***************************************************************************)
Merge(old, new) ==
    [k \in (DOMAIN old) \cup (DOMAIN new) |->
        IF k \in DOMAIN new THEN new[k] ELSE old[k]]

Coerce(value) ==
    IF value[1] \in {"list", "dict"} THEN <<"str", value[2]>>
    ELSE IF value[1] = "none" THEN <<"str", "">>
    ELSE <<"str", value[2]>>

\* float(text): the texts that parse, and the float each parses to.
ParsesAsFloat(text) == text \in {"2.0", "2", "1.0"}
FloatOf(text) == IF text = "2" THEN "2.0" ELSE text

prepare_node_data(node_id, node_attrs) ==
    LET node_data == Merge(node_attrs, [entity_id |-> <<"str", node_id>>])
    IN  [k \in DOMAIN node_data |-> Coerce(node_data[k])]

\* A prepare_edge_data without the except and else branches: a weight that
\* does not parse stays the string it was coerced to, an absent one absent.
prepare_edge_data_NoDefault(edge_attrs) ==
    LET edge_data == [k \in DOMAIN edge_attrs |-> Coerce(edge_attrs[k])]
    IN  IF "weight" \in DOMAIN edge_data /\ ParsesAsFloat(edge_data["weight"][2])
           THEN Merge(edge_data,
                      [weight |-> <<"float", FloatOf(edge_data["weight"][2])>>])
           ELSE edge_data

prepare_edge_data(edge_attrs) ==
    LET edge_data == [k \in DOMAIN edge_attrs |-> Coerce(edge_attrs[k])]
        weight == IF "weight" \in DOMAIN edge_data
                     THEN IF ParsesAsFloat(edge_data["weight"][2])
                             THEN <<"float", FloatOf(edge_data["weight"][2])>>
                             ELSE <<"float", "1.0">>
                     ELSE <<"float", "1.0">>
    IN  Merge(edge_data, [weight |-> weight])


(***************************************************************************)
(* The input graph: what nx.read_graphml returns.  Node ids are unique     *)
(* (the keys of a dict); the edge list of graph.edges(data=True) may hold  *)
(* the same endpoints more than once and in either orientation (a          *)
(* MultiGraph is returned for a document with parallel edges).             *)
(***************************************************************************)
IdOrder == <<"A", "B">>

NodeAttrs == [description |-> <<"str", "d">>]

EdgeAttrsAt(k) ==
    IF k = 1 THEN [weight |-> <<"float", "2.0">>]
    ELSE IF k = 2 THEN [keywords |-> <<"str", "k">>]
    ELSE [weight |-> <<"str", "heavy">>]

NodeSeqs == {SubSeq(IdOrder, 1, n) : n \in 1..Len(IdOrder)}

Range(s) == {s[k] : k \in DOMAIN s}

EdgeSeqs(ids) ==
    LET pairs == {pr \in ids \X ids : pr[1] # pr[2]}
    IN  {[k \in DOMAIN s |->
             [source |-> s[k][1], target |-> s[k][2], attrs |-> EdgeAttrsAt(k)]] :
         s \in UNION {[1..n -> pairs] : n \in 0..MaxEdges}}

Graphs ==
    UNION {{[nodes |-> [k \in DOMAIN ns |-> [id |-> ns[k], attrs |-> NodeAttrs]],
             edges |-> es, directed |-> d] :
                es \in EdgeSeqs(Range(ns)), d \in BOOLEAN} : ns \in NodeSeqs}

\* A well-formed document lists the nodes and the edges of one graph,
\* every node once.
Documents == Graphs

\* The attributes of a node entry that repeats the id of an earlier one.
RepeatedAttrs == [description |-> <<"str", "d2">>, entity_type |-> <<"str", "person">>]

\* A document whose last node entry repeats the id of its first.
MalformedDocuments ==
    {[d EXCEPT !.nodes = Append(@, [id |-> d.nodes[1].id, attrs |-> RepeatedAttrs])] :
        d \in Documents}

\* nx.read_graphml: G.add_node(id, **data) for every node entry, in
\* document order (a repeated id updates the attributes of the node it
\* names), then G.add_edge for every edge entry.
read_graphml(doc) ==
    LET at(ns, id) == CHOOSE k \in DOMAIN ns : ns[k].id = id
        F[k \in 0..Len(doc.nodes)] ==
            IF k = 0 THEN <<>>
            ELSE LET entry == doc.nodes[k]
                     ns == F[k - 1]
                 IN  IF \E j \in DOMAIN ns : ns[j].id = entry.id
                        THEN [ns EXCEPT ![at(ns, entry.id)].attrs =
                                            Merge(@, entry.attrs)]
                        ELSE Append(ns, entry)
    IN  [nodes |-> F[Len(doc.nodes)], edges |-> doc.edges, directed |-> doc.directed]

number_of_nodes(g) == Len(g.nodes)
number_of_edges(g) == Len(g.edges)

(***************************************************************************)
(* Edge canonicalization (migrate_edges, migrate_edges_single).            *)
(***************************************************************************)
\* A canonicalizer that never swaps the endpoints.
NormalizeEdge_NoSwap(e) == e

NormalizeEdge(e) ==
    IF StrLeq(e.source, e.target) THEN e
    ELSE [source |-> e.target, target |-> e.source, attrs |-> e.attrs]

\* A deduplication that keeps every record.
UniqueEdges_KeepAll(es) == es

\* A deduplication that assigns unique_edges[edge_key] for every record: a
\* key keeps the place of its first record and the attributes of its last.
UniqueEdges_LastWins(es) ==
    LET first(k) == \A j \in 1..(k - 1) :
                        <<es[j].source, es[j].target>> # <<es[k].source, es[k].target>>
        last(k) == CHOOSE j \in k..Len(es) :
                      /\ <<es[j].source, es[j].target>> = <<es[k].source, es[k].target>>
                      /\ \A h \in (j + 1)..Len(es) :
                            <<es[h].source, es[h].target>> # <<es[k].source, es[k].target>>
        F[k \in 0..Len(es)] ==
            IF k = 0 THEN <<>>
            ELSE IF first(k) THEN Append(F[k - 1], es[last(k)]) ELSE F[k - 1]
    IN  F[Len(es)]

\* unique_edges: a dict keyed by (source, target), first occurrence kept,
\* iterated in insertion order.
UniqueEdges(es) ==
    LET first(k) == \A j \in 1..(k - 1) :
                        <<es[j].source, es[j].target>> # <<es[k].source, es[k].target>>
        F[k \in 0..Len(es)] ==
            IF k = 0 THEN <<>>
            ELSE IF first(k) THEN Append(F[k - 1], es[k]) ELSE F[k - 1]
    IN  F[Len(es)]

\* A canonicalizer that does not look at graph.is_directed().
CanonicalEdges_AlwaysNormalize(g) ==
    UniqueEdges([k \in DOMAIN g.edges |-> NormalizeEdge(g.edges[k])])

\* edges = list(graph.edges(data=True)); normalized and deduplicated only
\* when not graph.is_directed().
CanonicalEdges(g) ==
    IF ~g.directed
       THEN UniqueEdges([k \in DOMAIN g.edges |-> NormalizeEdge(g.edges[k])])
       ELSE g.edges

(***************************************************************************)
(* The store.  A node is [nid, label, props]; a relationship is            *)
(* [src, dst, type, k, props] with src and dst the endpoints' nid and k    *)
(* telling apart relationships of one type between the same endpoints.     *)
(***************************************************************************)
Max(S) == CHOOSE x \in S : \A y \in S : y <= x

NewNid(ns) == IF ns = {} THEN 1 ELSE Max({n.nid : n \in ns}) + 1

HasLabel(ns, label) == {n \in ns : n.label = label}

\* A MATCH without the workspace label: (n {entity_id: eid})
MatchEntity_AnyLabel(ns, eid) ==
    {n \in ns :
        "entity_id" \in DOMAIN n.props /\ n.props["entity_id"] = <<"str", eid>>}

\* MATCH (n:`workspace` {entity_id: eid})
MatchEntity(ns, eid) ==
    {n \in HasLabel(ns, Workspace) :
        "entity_id" \in DOMAIN n.props /\ n.props["entity_id"] = <<"str", eid>>}

\* A node upsert that replaces the stored properties: SET n = data
MergeNode_Replace(ns, eid, data) ==
    LET m == MatchEntity(ns, eid)
    IN  IF m = {}
           THEN ns \cup {[nid |-> NewNid(ns), label |-> Workspace,
                          props |-> Merge([entity_id |-> <<"str", eid>>], data)]}
           ELSE (ns \ m) \cup {[n EXCEPT !.props = data] : n \in m}

\* MERGE (n:`workspace` {entity_id: eid}) SET n += data
MergeNode(ns, eid, data) ==
    LET m == MatchEntity(ns, eid)
    IN  IF m = {}
           THEN ns \cup {[nid |-> NewNid(ns), label |-> Workspace,
                          props |-> Merge([entity_id |-> <<"str", eid>>], data)]}
           ELSE (ns \ m) \cup {[n EXCEPT !.props = Merge(n.props, data)] : n \in m}

\* A k no relationship from pr[1] to pr[2] carries.
NewK(rs, pr) ==
    LET ks == {r.k : r \in {q \in rs : q.src = pr[1] /\ q.dst = pr[2]}}
    IN  IF ks = {} THEN 1 ELSE Max(ks) + 1

\* An edge writer that, finding the relationship stored already, adds one
\* in the opposite direction.
MergeRel_ReverseOnMatch(ns, rs, source, target, props) ==
    LET pairs == {<<a.nid, b.nid>> : a \in MatchEntity(ns, source),
                                     b \in MatchEntity(ns, target)}
        stored(pr) == \E r \in rs : r.type = "DIRECTED" /\ <<r.src, r.dst>> = pr
    IN  rs \cup {[src |-> pr[1], dst |-> pr[2], type |-> "DIRECTED",
                  k |-> NewK(rs, pr), props |-> props] :
                    pr \in {x \in pairs : ~stored(x)}}
           \cup {[src |-> pr[2], dst |-> pr[1], type |-> "DIRECTED",
                  k |-> NewK(rs, <<pr[2], pr[1]>>), props |-> props] :
                    pr \in {x \in pairs : stored(x) /\ ~stored(<<x[2], x[1]>>)}}

\* MATCH (a {entity_id: source}) MATCH (b {entity_id: target})
\* MERGE (a)-[r:DIRECTED]->(b) SET r += props
MergeRel(ns, rs, source, target, props) ==
    LET pairs == {<<a.nid, b.nid>> : a \in MatchEntity(ns, source),
                                     b \in MatchEntity(ns, target)}
        hit(r) == r.type = "DIRECTED" /\ <<r.src, r.dst>> \in pairs
        fresh == {pr \in pairs :
                    ~\E r \in rs : r.type = "DIRECTED" /\ <<r.src, r.dst>> = pr}
    IN  {IF hit(r) THEN [r EXCEPT !.props = Merge(r.props, props)] ELSE r : r \in rs}
        \cup {[src |-> pr[1], dst |-> pr[2], type |-> "DIRECTED", k |-> NewK(rs, pr),
               props |-> props] : pr \in fresh}

\* Whether both MATCH clauses of the edge query find a node.
EndpointsStored(ns, e) ==
    MatchEntity(ns, e.source) # {} /\ MatchEntity(ns, e.target) # {}

\* Relationships with both endpoints in the workspace and type DIRECTED.
WorkspaceRels(ns, rs) ==
    LET w == {n.nid : n \in HasLabel(ns, Workspace)}
    IN  {r \in rs : r.type = "DIRECTED" /\ r.src \in w /\ r.dst \in w}

\* n.entity_id, null when the property is absent.
EntityIdOf(n) == IF "entity_id" \in DOMAIN n.props THEN n.props["entity_id"] ELSE <<"null">>

(***************************************************************************)
(* The requests of the migration, as functions of the store.               *)
(***************************************************************************)
\* batch_data of migrate_nodes for one node: the coerced attributes plus
\* the _entity_type entry the batch query stores with them.
BatchNodeData(node) ==
    LET node_data == prepare_node_data(node.id, node.attrs)
        entity_type == IF "entity_type" \in DOMAIN node_data
                          THEN node_data["entity_type"] ELSE <<"str", "Entity">>
    IN  Merge(node_data, [_entity_type |-> entity_type])

\* A node writer whose chunk runs to the end of the list (nodes[i:]).
RECURSIVE WriteNodes_ToEnd(_, _, _, _, _)
WriteNodes_ToEnd(ns, g, lo, hi, single) ==
    IF lo >= Len(g.nodes) THEN ns
    ELSE LET node == g.nodes[lo + 1]
             data == IF single THEN prepare_node_data(node.id, node.attrs)
                     ELSE BatchNodeData(node)
         IN  WriteNodes_ToEnd(MergeNode(ns, node.id, data), g, lo + 1, hi, single)

\* UNWIND $batch_data AS node_data MERGE ... SET n += node_data, over the
\* nodes lo+1 .. hi of the graph (one query), or the single-mode query for
\* each of them.
RECURSIVE WriteNodes(_, _, _, _, _)
WriteNodes(ns, g, lo, hi, single) ==
    IF lo >= hi THEN ns
    ELSE LET node == g.nodes[lo + 1]
             data == IF single THEN prepare_node_data(node.id, node.attrs)
                     ELSE BatchNodeData(node)
         IN  WriteNodes(MergeNode(ns, node.id, data), g, lo + 1, hi, single)

\* An edge query whose MERGE sees, for every row, the relationships stored
\* before the query: two rows of a chunk naming endpoints not connected yet
\* create a relationship each.
WriteEdges_Snapshot(ns, rs, es, lo, hi) ==
    LET stored(r) == \E q \in rs : q.type = "DIRECTED" /\ q.src = r.src /\ q.dst = r.dst
        row(acc, k) == MergeRel(ns, acc, es[k].source, es[k].target,
                                prepare_edge_data(es[k].attrs))
        F[k \in lo..hi] == IF k = lo THEN rs ELSE row(F[k - 1], k)
    IN  IF lo >= hi THEN rs
        ELSE {r \in F[hi] : stored(r)} \cup
             UNION {{[r EXCEPT !.k = k - lo] : r \in {q \in row(rs, k) : ~stored(q)}} :
                        k \in (lo + 1)..hi}

\* UNWIND $batch_data AS edge_data MATCH .. MATCH .. MERGE .. SET, over the
\* edges lo+1 .. hi of the list handed to the writer.
RECURSIVE WriteEdges(_, _, _, _, _)
WriteEdges(ns, rs, es, lo, hi) ==
    IF lo >= hi THEN rs
    ELSE LET e == es[lo + 1]
         IN  WriteEdges(ns,
                        MergeRel(ns, rs, e.source, e.target, prepare_edge_data(e.attrs)),
                        es, lo + 1, hi)

Min(a, b) == IF a <= b THEN a ELSE b

\* MATCH (n:`workspace`)-[r]-() DELETE r
ClearRels(ns, rs) ==
    LET w == {n.nid : n \in HasLabel(ns, Workspace)}
    IN  {r \in rs : r.src \notin w /\ r.dst \notin w}

\* A second clear query that matches no node.
ClearNodes_Nothing(ns) == ns

\* MATCH (n:`workspace`) DELETE n
ClearNodes(ns) == ns \ HasLabel(ns, Workspace)

\* A first cleanup query that groups the nodes of every label: one node of
\* every entity_id is kept, whatever workspace it belongs to.
NodeKeepSets_AnyLabel(ns) ==
    {K \in SUBSET ns :
        \A n \in ns : Cardinality({m \in K : EntityIdOf(m) = EntityIdOf(n)}) = 1}

\* The sets of workspace nodes the first cleanup query may keep: one node
\* of every entity_id group (collect() order is the store's).
NodeKeepSets(ns) ==
    LET w == HasLabel(ns, Workspace)
    IN  {K \in SUBSET w :
            \A n \in w : Cardinality({m \in K : EntityIdOf(m) = EntityIdOf(n)}) = 1}

\* UNWIND tail(nodes) AS duplicate DETACH DELETE duplicate
DetachDelete(ns, rs, K) ==
    LET gone == {n.nid : n \in HasLabel(ns, Workspace) \ K}
    IN  [nodes |-> {n \in ns : n.nid \notin gone},
         rels |-> {r \in rs : r.src \notin gone /\ r.dst \notin gone}]

\* The sets of DIRECTED workspace relationships the second cleanup query
\* may keep: one of every (a, b) group.
RelKeepSets(ns, rs) ==
    LET w == WorkspaceRels(ns, rs)
    IN  {K \in SUBSET w :
            \A r \in w : Cardinality({q \in K : q.src = r.src /\ q.dst = r.dst}) = 1}

\* A second cleanup query that deletes the head of every group, whatever
\* its size.
DeleteDuplicateRels_Heads(ns, rs, K) == rs \ K

DeleteDuplicateRels(ns, rs, K) == (rs \ WorkspaceRels(ns, rs)) \cup K

\* The three counts verify_migration reads.
CountNodes(ns) == Cardinality(HasLabel(ns, Workspace))
CountEdges(ns, rs) == Cardinality(WorkspaceRels(ns, rs))
CountDuplicateNodes(ns) ==
    LET w == HasLabel(ns, Workspace)
    IN  Cardinality({EntityIdOf(n) : n \in
            {m \in w : /\ "entity_id" \in DOMAIN m.props
                       /\ Cardinality({q \in w : EntityIdOf(q) = EntityIdOf(m)}) > 1}})

\* expected_edges of verify_migration.
ExpectedEdges(g) == number_of_edges(g)

VerifyReport(ns, rs, g) ==
    LET neo4j_node_count == CountNodes(ns)
        neo4j_edge_count == CountEdges(ns, rs)
        duplicate_nodes == CountDuplicateNodes(ns)
        node_match == neo4j_node_count = number_of_nodes(g)
        edge_match == neo4j_edge_count = ExpectedEdges(g)
        no_duplicates == duplicate_nodes = 0
    IN  [verified |-> TRUE,
         neo4j_node_count |-> neo4j_node_count,
         neo4j_edge_count |-> neo4j_edge_count,
         duplicate_nodes |-> duplicate_nodes,
         node_match |-> node_match, edge_match |-> edge_match,
         no_duplicates |-> no_duplicates,
         success |-> node_match /\ edge_match /\ no_duplicates]

NoReport ==
    [verified |-> FALSE, neo4j_node_count |-> 0, neo4j_edge_count |-> 0,
     duplicate_nodes |-> 0, node_match |-> FALSE, edge_match |-> FALSE,
     no_duplicates |-> FALSE, success |-> FALSE]

(***************************************************************************)
(* The stores a run may find: a node of another workspace with a           *)
(* relationship of its own, up to MaxCopies workspace nodes for each id    *)
(* (left by earlier runs or other writers), and at most one relationship   *)
(* between them.                                                           *)
(***************************************************************************)
OldNodeProps(id) ==
    [entity_id |-> <<"str", id>>, description |-> <<"str", "old">>,
     source_id |-> <<"str", "chunk-1">>]

OtherNode == [nid |-> 1, label |-> OtherWorkspace, props |-> OldNodeProps("A")]
OtherRel ==
    [src |-> 1, dst |-> 1, type |-> "DIRECTED", k |-> 1,
     props |-> [weight |-> <<"float", "9.0">>]]

\* Workspace nodes stored before position p of IdOrder, under copy counts cp.
RECURSIVE Before(_, _)
Before(cp, p) == IF p = 1 THEN 0 ELSE cp[IdOrder[p - 1]] + Before(cp, p - 1)

\* nid of copy c of the id at position p.
NidOf(cp, p, c) == 1 + Before(cp, p) + c

StoredNodes(cp) ==
    {OtherNode} \cup
    {[nid |-> NidOf(cp, pq[1], pq[2]), label |-> Workspace,
      props |-> OldNodeProps(IdOrder[pq[1]])] :
        pq \in {x \in (DOMAIN IdOrder) \X (1..MaxCopies) : x[2] <= cp[IdOrder[x[1]]]}}

StoredRelChoices(cp) ==
    {{}} \cup
    {{[src |-> NidOf(cp, pq[1], 1), dst |-> NidOf(cp, pq[2], 1), type |-> "DIRECTED",
       k |-> 1, props |-> [weight |-> <<"float", "9.0">>]]} :
        pq \in {x \in (DOMAIN IdOrder) \X (DOMAIN IdOrder) :
                  x[1] # x[2] /\ cp[IdOrder[x[1]]] > 0 /\ cp[IdOrder[x[2]]] > 0}}

InitStores ==
    UNION {{[nodes |-> StoredNodes(cp), rels |-> {OtherRel} \cup R] :
                R \in StoredRelChoices(cp)} : cp \in [Ids -> 0..MaxCopies]}

(***************************************************************************)
(* The state of a run of main().                                           *)
(***************************************************************************)
VARIABLES
    graph,          \* the graph the input file holds
    nodes, rels,    \* the store
    index,          \* labels with an entity_id index
    pc,             \* where main() is
    run,            \* invocations of main() so far
    clear_existing, \* --clear
    single_mode,    \* --single-mode
    driver,         \* self.driver: "none", "open", "closed"
    i,              \* offset of the next chunk (item) of the phase
    edges,          \* the edge list handed to the edge writer
    report,         \* what verify_migration computed
    exit_code,      \* the process's exit code, -1 while it runs
    surfaced,       \* the failure printed and raised
    failed,         \* the phase and chunk at which the run stopped
    trace,          \* the phases completed, in order
    unmatched,      \* edge records whose MATCH found no row
    run_start,      \* the store when the run started
    phase_start,    \* the store when the current write phase started
    prev,           \* report of the previous run
    prev_exit_code, \* exit code of the previous invocation, -1 when there is none
    cleanup_only,   \* --cleanup-only
    attempt,        \* connection attempts made by the invocation
    document,       \* the input file: node entries, edge entries, edgedefault
    databases,      \* the databases of the Milvus server
    warned,         \* create_indexes printed its warning
    inflight,       \* the requests sent whose await has not returned
    issued          \* the requests the run has sent, in the order sent

vars == <<graph, nodes, rels, index, pc, run, clear_existing, single_mode, driver,
          i, edges, report, exit_code, surfaced, failed, trace, unmatched,
          run_start, phase_start, prev, prev_exit_code, cleanup_only, attempt,
          document, databases, warned, inflight, issued>>

NoFailure == [kind |-> "none", names |-> {}]
NotFailed == [phase |-> "none", chunk |-> 0]
Store == [nodes |-> nodes, rels |-> rels]

Init ==
    /\ document \in Documents
    /\ graph = read_graphml(document)
    /\ databases = {}
    /\ cleanup_only = FALSE
    /\ attempt = 0
    /\ prev_exit_code = -1
    /\ \E st \in InitStores :
          /\ nodes = st.nodes
          /\ rels = st.rels
          /\ run_start = st
          /\ phase_start = st
    /\ index = {}
    /\ pc = "idle"
    /\ run = 0
    /\ clear_existing = FALSE
    /\ single_mode = FALSE
    /\ driver = "none"
    /\ i = 0
    /\ edges = <<>>
    /\ report = NoReport
    /\ exit_code = -1
    /\ surfaced = NoFailure
    /\ failed = NotFailed
    /\ trace = <<>>
    /\ unmatched = {}
    /\ prev = NoReport
    /\ warned = FALSE
    /\ inflight = {}
    /\ issued = <<>>

(***************************************************************************)
(* migrate(): where the run goes next, skipping a loop with nothing to do. *)
(***************************************************************************)
AfterNodesPc == IF Len(CanonicalEdges(graph)) = 0 THEN "cleanup_nodes" ELSE "edges"
NodesPc == IF Len(graph.nodes) = 0 THEN AfterNodesPc ELSE "nodes"

AfterNodesTrace ==
    <<"NodesWritten">> \o (IF AfterNodesPc = "edges" THEN <<>> ELSE <<"EdgesWritten">>)
NodesTrace == IF NodesPc = "nodes" THEN <<>> ELSE AfterNodesTrace

\* The end of the chunk (item) starting at offset i.
NodeChunkEnd == Min(i + (IF single_mode THEN 1 ELSE NodeBatchSize), Len(graph.nodes))
EdgeChunkEnd == Min(i + (IF single_mode THEN 1 ELSE EdgeBatchSize), Len(edges))

\* The index of the chunk (item) starting at offset i.
ChunkIndex ==
    IF pc = "nodes" THEN i \div (IF single_mode THEN 1 ELSE NodeBatchSize)
    ELSE IF pc = "edges" THEN i \div (IF single_mode THEN 1 ELSE EdgeBatchSize)
    ELSE 0

\* The edge records of the chunk at offset i whose MATCH finds no row.
ChunkUnmatched ==
    {edges[k] : k \in {j \in (i + 1)..EdgeChunkEnd : ~EndpointsStored(nodes, edges[j])}}

\* The stores the request at pc may leave when the server applies it.
Effects ==
    CASE pc = "clear_rels" -> {[nodes |-> nodes, rels |-> ClearRels(nodes, rels)]}
      [] pc = "clear_nodes" -> {[nodes |-> ClearNodes(nodes), rels |-> rels]}
      [] pc = "nodes" ->
            {[nodes |-> WriteNodes(nodes, graph, i, NodeChunkEnd, single_mode),
              rels |-> rels]}
      [] pc = "edges" ->
            {[nodes |-> nodes, rels |-> WriteEdges(nodes, rels, edges, i, EdgeChunkEnd)]}
      [] pc = "cleanup_nodes" ->
            {DetachDelete(nodes, rels, K) : K \in NodeKeepSets(nodes)}
      [] pc = "cleanup_rels" ->
            {[nodes |-> nodes, rels |-> DeleteDuplicateRels(nodes, rels, K)] :
                K \in RelKeepSets(nodes, rels)}
      [] OTHER -> {Store}

RequestPcs ==
    {"connect", "clear_rels", "clear_nodes", "nodes", "edges", "cleanup_nodes",
     "cleanup_rels", "verify"}

RunningPcs == RequestPcs \cup {"load", "index"}

(***************************************************************************)
(* main(): parse the arguments, check the file exists, run migrate().      *)
(***************************************************************************)
MainStart(clear, single, file_exists) ==
    /\ pc \in {"idle", "exit"}
    /\ run + 1 \in RunIds
    /\ run' = run + 1
    /\ clear_existing' = clear
    /\ single_mode' = single
    /\ driver' = "none"
    /\ i' = 0
    /\ edges' = <<>>
    /\ prev' = report
    /\ report' = NoReport
    /\ trace' = <<>>
    /\ unmatched' = {}
    /\ run_start' = Store
    /\ phase_start' = Store
    /\ IF file_exists
          THEN /\ pc' = "connect"
               /\ exit_code' = -1
               /\ surfaced' = NoFailure
               /\ failed' = NotFailed
          ELSE /\ pc' = "exit"
               /\ exit_code' = 1
               /\ surfaced' = [kind |-> "exception", names |-> {"cause"}]
               /\ failed' = [phase |-> "main", chunk |-> 0]
    /\ cleanup_only' = FALSE
    /\ attempt' = 0
    /\ prev_exit_code' = exit_code
    /\ warned' = FALSE
    /\ inflight' = {}
    /\ issued' = <<>>
    /\ UNCHANGED <<graph, document, databases, nodes, rels, index>>

Main == \E clear, single, file_exists \in BOOLEAN : MainStart(clear, single, file_exists)

\* A run without the finally block.
Disconnected_Never(d) == d

\* finally: await self.disconnect(): if self.driver: await self.driver.close()
Disconnected(d) == IF d = "open" THEN "closed" ELSE d

\* An except block that prints the failure and lets the run go on to
\* verification.
Raise_Swallowed(d) ==
    /\ surfaced' = [kind |-> "exception",
                    names |-> {"cause"} \cup (IF single_mode THEN {} ELSE {"tip"})]
    /\ failed' = [phase |-> pc, chunk |-> ChunkIndex]
    /\ driver' = "open"
    /\ pc' = "verify"
    /\ exit_code' = -1

\* except Exception: print the failure (in migrate(), and the tip when not
\* in single mode), raise; finally: disconnect; main(): sys.exit(1).
Raise(d) ==
    /\ surfaced' = [kind |-> "exception",
                    names |-> {"cause"} \cup
                              (IF single_mode \/ cleanup_only THEN {} ELSE {"tip"})]
    /\ failed' = [phase |-> pc, chunk |-> ChunkIndex]
    /\ driver' = Disconnected(d)
    /\ pc' = "exit"
    /\ exit_code' = 1

Connect ==
    /\ pc = "connect"
    /\ attempt' = attempt + 1
    /\ driver' = "open"
    /\ pc' = IF cleanup_only THEN "cleanup_nodes" ELSE "load"
    /\ trace' = Append(trace, "Connected")
    /\ UNCHANGED <<graph, document, warned, inflight, issued, databases, cleanup_only, prev_exit_code, nodes, rels, index, run, clear_existing, single_mode, i,
                   edges, report, exit_code, surfaced, failed, unmatched, run_start,
                   phase_start, prev>>

\* The driver cannot be created, or the test query fails.
ConnectFails ==
    /\ pc = "connect"
    /\ attempt' = attempt + 1
    /\ \E d \in {"none", "open"} : Raise(d)
    /\ UNCHANGED <<graph, document, warned, inflight, issued, databases, cleanup_only, prev_exit_code, nodes, rels, index, run, clear_existing, single_mode, i,
                   edges, report, trace, unmatched, run_start, phase_start, prev>>

load_graphml ==
    /\ pc = "load"
    /\ pc' = IF clear_existing THEN "clear_rels" ELSE NodesPc
    /\ trace' = Append(trace, "Loaded") \o (IF clear_existing THEN <<>> ELSE NodesTrace)
    /\ edges' = IF ~clear_existing /\ NodesPc # "nodes" THEN CanonicalEdges(graph) ELSE edges
    /\ UNCHANGED <<graph, document, warned, inflight, issued, databases, cleanup_only, prev_exit_code, attempt,
                   nodes, rels, index, run, clear_existing, single_mode, driver, i,
                   report, exit_code, surfaced, failed, unmatched, run_start,
                   phase_start, prev>>

\* A migrate() that clears the workspace before it loads the file.
LoadFails_AfterClear ==
    /\ pc = "load"
    /\ Raise(driver)
    /\ nodes' = IF clear_existing THEN ClearNodes(nodes) ELSE nodes
    /\ rels' = IF clear_existing THEN ClearRels(nodes, rels) ELSE rels
    /\ UNCHANGED <<graph, document, warned, inflight, issued, databases, cleanup_only, prev_exit_code, attempt,
                   index, run, clear_existing, single_mode, i, edges, report, trace,
                   unmatched, run_start, phase_start, prev>>

\* nx.read_graphml raises: the document is not a valid GraphML file.
LoadFails ==
    /\ pc = "load"
    /\ Raise(driver)
    /\ UNCHANGED <<graph, document, warned, inflight, issued, databases, cleanup_only, prev_exit_code, attempt,
                   nodes, rels, index, run, clear_existing, single_mode, i,
                   edges, report, trace, unmatched, run_start, phase_start, prev>>

clear_workspace_rels ==
    /\ pc = "clear_rels"
    /\ rels' = ClearRels(nodes, rels)
    /\ pc' = "clear_nodes"
    /\ UNCHANGED <<graph, document, warned, inflight, issued, databases, cleanup_only, prev_exit_code, attempt,
                   nodes, index, run, clear_existing, single_mode, driver, i,
                   edges, report, exit_code, surfaced, failed, trace, unmatched,
                   run_start, phase_start, prev>>

clear_workspace_nodes ==
    /\ pc = "clear_nodes"
    /\ nodes' = ClearNodes(nodes)
    /\ pc' = NodesPc
    /\ trace' = Append(trace, "Cleared") \o NodesTrace
    /\ edges' = IF NodesPc # "nodes" THEN CanonicalEdges(graph) ELSE edges
    /\ phase_start' = [nodes |-> nodes', rels |-> rels]
    /\ UNCHANGED <<graph, document, warned, inflight, issued, databases, cleanup_only, prev_exit_code, attempt,
                   rels, index, run, clear_existing, single_mode, driver, i,
                   report, exit_code, surfaced, failed, unmatched, run_start, prev>>

\* One iteration of the loop of migrate_nodes (migrate_nodes_single).
NodeStep ==
    /\ pc = "nodes"
    /\ nodes' = WriteNodes(nodes, graph, i, NodeChunkEnd, single_mode)
    /\ IF NodeChunkEnd < Len(graph.nodes)
          THEN /\ i' = NodeChunkEnd
               /\ UNCHANGED <<pc, trace, edges, phase_start>>
          ELSE /\ i' = 0
               /\ pc' = AfterNodesPc
               /\ trace' = trace \o AfterNodesTrace
               /\ edges' = CanonicalEdges(graph)
               /\ phase_start' = [nodes |-> nodes', rels |-> rels]
    /\ UNCHANGED <<graph, document, warned, databases, cleanup_only, prev_exit_code, attempt,
                   rels, index, run, clear_existing, single_mode, driver,
                   report, exit_code, surfaced, failed, unmatched, run_start, prev>>

\* The loop taken one awaited request at a time: sent and answered in one step.
migrate_nodes == ~single_mode /\ NodeStep /\ UNCHANGED <<inflight, issued>>
migrate_nodes_single == single_mode /\ NodeStep /\ UNCHANGED <<inflight, issued>>

\* One iteration of the loop of migrate_edges (migrate_edges_single).
EdgeStep ==
    /\ pc = "edges"
    /\ rels' = WriteEdges(nodes, rels, edges, i, EdgeChunkEnd)
    /\ unmatched' = unmatched \cup ChunkUnmatched
    /\ IF EdgeChunkEnd < Len(edges)
          THEN /\ i' = EdgeChunkEnd
               /\ UNCHANGED <<pc, trace>>
          ELSE /\ i' = 0
               /\ pc' = "cleanup_nodes"
               /\ trace' = Append(trace, "EdgesWritten")
    /\ UNCHANGED <<graph, document, warned, databases, cleanup_only, prev_exit_code, attempt,
                   nodes, index, run, clear_existing, single_mode, driver, edges,
                   report, exit_code, surfaced, failed, run_start, phase_start, prev>>

migrate_edges == ~single_mode /\ EdgeStep /\ UNCHANGED <<inflight, issued>>
migrate_edges_single == single_mode /\ EdgeStep /\ UNCHANGED <<inflight, issued>>

cleanup_duplicate_nodes ==
    /\ pc = "cleanup_nodes"
    /\ \E K \in NodeKeepSets(nodes) :
          /\ nodes' = DetachDelete(nodes, rels, K).nodes
          /\ rels' = DetachDelete(nodes, rels, K).rels
    /\ pc' = "cleanup_rels"
    /\ UNCHANGED <<graph, document, warned, inflight, issued, databases, cleanup_only, prev_exit_code, attempt,
                   index, run, clear_existing, single_mode, driver, i, edges,
                   report, exit_code, surfaced, failed, trace, unmatched, run_start,
                   phase_start, prev>>

cleanup_duplicate_rels ==
    /\ pc = "cleanup_rels"
    /\ \E K \in RelKeepSets(nodes, rels) : rels' = DeleteDuplicateRels(nodes, rels, K)
    /\ trace' = Append(trace, "Reconciled")
    /\ IF cleanup_only
          THEN /\ pc' = "exit"
               /\ exit_code' = 0
               /\ driver' = Disconnected(driver)
          ELSE /\ pc' = "index"
               /\ UNCHANGED <<exit_code, driver>>
    /\ UNCHANGED <<graph, document, warned, inflight, issued, databases, cleanup_only, prev_exit_code, attempt,
                   nodes, index, run, clear_existing, single_mode, i,
                   edges, report, surfaced, failed, unmatched, run_start,
                   phase_start, prev>>

\* A create_indexes whose except block re-raises: the failure ends the run.
create_indexes_Fatal ==
    /\ pc = "index"
    /\ \E fails \in BOOLEAN :
          IF fails
             THEN /\ Raise(driver)
                  /\ warned' = TRUE
                  /\ UNCHANGED <<index, trace>>
             ELSE /\ index' = index \cup {Workspace}
                  /\ warned' = FALSE
                  /\ pc' = "verify"
                  /\ trace' = Append(trace, "Indexed")
                  /\ UNCHANGED <<exit_code, driver, surfaced, failed>>
    /\ UNCHANGED <<graph, document, inflight, issued, databases, cleanup_only,
                   prev_exit_code, attempt, nodes, rels, run, clear_existing,
                   single_mode, i, edges, report, unmatched, run_start,
                   phase_start, prev>>

\* CREATE INDEX ... IF NOT EXISTS inside try; except Exception prints the
\* warning and the method returns.
create_indexes ==
    /\ pc = "index"
    /\ \E fails \in BOOLEAN :
          /\ index' = IF fails THEN index ELSE index \cup {Workspace}
          /\ warned' = fails
    /\ pc' = "verify"
    /\ trace' = Append(trace, "Indexed")
    /\ UNCHANGED <<graph, document, inflight, issued, databases, cleanup_only,
                   prev_exit_code, attempt, nodes, rels, run, clear_existing,
                   single_mode, driver, i, edges, report, exit_code, surfaced,
                   failed, unmatched, run_start, phase_start, prev>>

\* A verification that, finding the edge counts apart, removes the
\* relationships of the workspace.
verify_migration_Repairing ==
    /\ pc = "verify"
    /\ report' = VerifyReport(nodes, rels, graph)
    /\ rels' = IF report'.edge_match THEN rels ELSE ClearRels(nodes, rels)
    /\ trace' = Append(trace, "Verified")
    /\ driver' = Disconnected(driver)
    /\ pc' = "exit"
    /\ exit_code' = 0
    /\ UNCHANGED <<graph, document, warned, inflight, issued, databases, cleanup_only, prev_exit_code, attempt,
                   nodes, index, run, clear_existing, single_mode, i, edges, surfaced,
                   failed, unmatched, run_start, phase_start, prev>>

\* verify_migration, the prints of migrate(), finally: disconnect; main()
\* returns.
verify_migration ==
    /\ pc = "verify"
    /\ report' = VerifyReport(nodes, rels, graph)
    /\ trace' = Append(trace, "Verified")
    /\ driver' = Disconnected(driver)
    /\ pc' = "exit"
    /\ exit_code' = 0
    /\ UNCHANGED <<graph, document, warned, inflight, issued, databases, cleanup_only, prev_exit_code, attempt,
                   nodes, rels, index, run, clear_existing, single_mode, i,
                   edges, surfaced, failed, unmatched, run_start, phase_start, prev>>

\* A round trip after connect() fails: the server has applied the request
\* or not.
RequestFails ==
    /\ pc \in RequestPcs \ {"connect"}
    /\ \E st \in {Store} \cup Effects :
          /\ nodes' = st.nodes
          /\ rels' = st.rels
    /\ Raise(driver)
    /\ UNCHANGED <<graph, document, warned, inflight, issued, databases, cleanup_only, prev_exit_code, attempt,
                   index, run, clear_existing, single_mode, i, edges, report,
                   trace, unmatched, run_start, phase_start, prev>>

\* KeyboardInterrupt: the task is cancelled where it waits; except
\* Exception does not catch it; finally: disconnect; main(): sys.exit(1).
Interrupt ==
    /\ pc \in RunningPcs
    /\ \E st \in {Store} \cup Effects :
          /\ nodes' = st.nodes
          /\ rels' = st.rels
    /\ surfaced' = [kind |-> "interrupt", names |-> {}]
    /\ failed' = [phase |-> pc, chunk |-> ChunkIndex]
    /\ driver' = Disconnected(driver)
    /\ pc' = "exit"
    /\ exit_code' = 1
    /\ UNCHANGED <<graph, document, warned, inflight, issued, databases, cleanup_only, prev_exit_code, attempt,
                   index, run, clear_existing, single_mode, i, edges, report,
                   trace, unmatched, run_start, phase_start, prev>>

Next ==
    \/ Main
    \/ Connect
    \/ ConnectFails
    \/ load_graphml
    \/ LoadFails
    \/ clear_workspace_rels
    \/ clear_workspace_nodes
    \/ migrate_nodes
    \/ migrate_nodes_single
    \/ migrate_edges
    \/ migrate_edges_single
    \/ cleanup_duplicate_nodes
    \/ cleanup_duplicate_rels
    \/ create_indexes
    \/ verify_migration
    \/ RequestFails
    \/ Interrupt

Spec == Init /\ [][Next]_vars

(***************************************************************************)
(* What the claims speak of.                                               *)
(***************************************************************************)
\* The source edge count after canonicalization: the edges themselves for
\* a directed graph, the unordered endpoint pairs for an undirected one.
CanonicalCount(g) ==
    IF g.directed THEN Len(g.edges)
    ELSE Cardinality({{g.edges[k].source, g.edges[k].target} : k \in DOMAIN g.edges})

\* The workspace holds no node (and so no relationship) in store st.
EmptyWorkspace(st) == HasLabel(st.nodes, Workspace) = {}

\* The run has returned from verify_migration.
Completed == pc = "exit" /\ report.verified

(***************************************************************************)
(* C1: a run into an initially empty workspace that completes without      *)
(* error (verification succeeds) leaves as many workspace nodes as the     *)
(* source graph has nodes and as many DIRECTED relationships as the source *)
(* has edges after canonicalization.                                       *)
(***************************************************************************)
C1_CountsMatchSource ==
    (Completed /\ report.success /\ EmptyWorkspace(run_start)) =>
        /\ CountNodes(nodes) = number_of_nodes(graph)
        /\ CountEdges(nodes, rels) = CanonicalCount(graph)

C1_Witness ==
    /\ Completed /\ report.success /\ EmptyWorkspace(run_start)
    /\ ~graph.directed
    /\ Len(graph.nodes) = 2
    /\ Len(graph.edges) = 1
    /\ graph.edges[1].source = "B"
    /\ CountEdges(nodes, rels) = 1

(***************************************************************************)
(* C2: a second run of the same graph without --clear, after a first       *)
(* successful run, reads the same node and edge counts as the first and    *)
(* finds no duplicates; the first found none either.                       *)
(***************************************************************************)
C2_RerunKeepsCounts ==
    (Completed /\ run = 2 /\ ~clear_existing /\ prev.verified /\ prev.success) =>
        /\ report.neo4j_node_count = prev.neo4j_node_count
        /\ report.neo4j_edge_count = prev.neo4j_edge_count
        /\ CountNodes(nodes) = prev.neo4j_node_count
        /\ CountEdges(nodes, rels) = prev.neo4j_edge_count
        /\ report.no_duplicates
        /\ prev.no_duplicates

C2_Witness ==
    /\ Completed /\ run = 2 /\ ~clear_existing /\ prev.verified /\ prev.success
    /\ report.success
    /\ report.neo4j_node_count = 2
    /\ report.neo4j_edge_count = 2

(***************************************************************************)
(* C3: the process exits with code 0 only when the run succeeded including *)
(* verification; a failed connection, load, write or verification gives a  *)
(* non-zero exit code.                                                     *)
(***************************************************************************)
C3_ExitZeroOnlyOnVerifiedSuccess ==
    (pc = "exit" /\ exit_code = 0) => (report.verified /\ report.success)

(***************************************************************************)
(* C4: a complete run of G without --clear, started on what a halted run   *)
(* of G left behind (some of G's nodes, possibly stored more than once,    *)
(* and some of G's canonical edges), ends in Verified Success with the     *)
(* node count, the edge count and duplicate-freedom matching G.            *)
(***************************************************************************)
NodeById(ns, id) == CHOOSE n \in ns : n.nid = id

\* The entity ids a relationship connects.
EndpointIds(ns, r) ==
    <<EntityIdOf(NodeById(ns, r.src))[2], EntityIdOf(NodeById(ns, r.dst))[2]>>

\* The (source, target) pairs of G's edges in canonical direction.
CanonicalPairs(g) ==
    {IF g.directed \/ StrLeq(g.edges[k].source, g.edges[k].target)
        THEN <<g.edges[k].source, g.edges[k].target>>
        ELSE <<g.edges[k].target, g.edges[k].source>> : k \in DOMAIN g.edges}

LeftByRunOf(st, g) ==
    LET w == HasLabel(st.nodes, Workspace)
        ids == {g.nodes[k].id : k \in DOMAIN g.nodes}
    IN  /\ \A n \in w : EntityIdOf(n) \in {<<"str", id>> : id \in ids}
        /\ \A r \in st.rels :
              (r.src \in {n.nid : n \in w} \/ r.dst \in {n.nid : n \in w}) =>
                  /\ r \in WorkspaceRels(st.nodes, st.rels)
                  /\ EndpointIds(st.nodes, r) \in CanonicalPairs(g)

C4_RerunEndsVerifiedSuccess ==
    (Completed /\ ~clear_existing /\ LeftByRunOf(run_start, graph)) =>
        /\ report.success
        /\ CountNodes(nodes) = number_of_nodes(graph)
        /\ CountEdges(nodes, rels) = CanonicalCount(graph)
        /\ CountDuplicateNodes(nodes) = 0

(***************************************************************************)
(* C5: the verifier reports success exactly when the stored node count     *)
(* equals the source node count, the stored DIRECTED relationship count    *)
(* equals the source edge count after canonicalization, and no id is       *)
(* stored twice.                                                           *)
(***************************************************************************)
C5_VerdictComparesCanonicalCount ==
    Completed =>
        (report.success <=>
            /\ report.neo4j_node_count = number_of_nodes(graph)
            /\ report.neo4j_edge_count = CanonicalCount(graph)
            /\ report.duplicate_nodes = 0)

(***************************************************************************)
(* C6: for an undirected graph the edge list handed to the writer holds    *)
(* exactly one record for every unordered pair of the input, its source    *)
(* the lexicographically smaller id; written into an empty workspace, each *)
(* pair is stored as one relationship from the smaller id to the larger.   *)
(***************************************************************************)
EdgesHanded == pc = "edges" \/ "EdgesWritten" \in Range(trace)

UnorderedPairs(es) == {{es[k].source, es[k].target} : k \in DOMAIN es}

C6_OneRecordPerUnorderedPair ==
    (~graph.directed /\ EdgesHanded) =>
        /\ \A k \in DOMAIN edges : StrLeq(edges[k].source, edges[k].target)
        /\ \A j, k \in DOMAIN edges :
              j # k => {edges[j].source, edges[j].target}
                           # {edges[k].source, edges[k].target}
        /\ UnorderedPairs(edges) = UnorderedPairs(graph.edges)
        /\ ("EdgesWritten" \in Range(trace) /\ EmptyWorkspace(run_start)) =>
              /\ Cardinality(WorkspaceRels(nodes, rels))
                    = Cardinality(UnorderedPairs(graph.edges))
              /\ \A r \in WorkspaceRels(nodes, rels) :
                    /\ StrLeq(EndpointIds(nodes, r)[1], EndpointIds(nodes, r)[2])
                    /\ {EndpointIds(nodes, r)[1], EndpointIds(nodes, r)[2]}
                          \in UnorderedPairs(graph.edges)

C6_Witness ==
    /\ ~graph.directed
    /\ "EdgesWritten" \in Range(trace)
    /\ EmptyWorkspace(run_start)
    /\ Len(graph.edges) = 2
    /\ graph.edges[1].source = "B" /\ graph.edges[1].target = "A"
    /\ graph.edges[2].source = "A" /\ graph.edges[2].target = "B"
    /\ Len(edges) = 1
    /\ \E r \in WorkspaceRels(nodes, rels) : EndpointIds(nodes, r) = <<"A", "B">>

(***************************************************************************)
(* C7: the phases of a run complete in the order Connected, (Loaded,)      *)
(* Cleared when asked for, NodesWritten, EdgesWritten, Reconciled,         *)
(* Indexed, Verified; each starts when exactly those before it have        *)
(* completed; a failure halts the run with no later phase executed and is  *)
(* surfaced to the caller.                                                 *)
(***************************************************************************)
PhaseOrder ==
    <<"Connected", "Loaded">> \o (IF clear_existing THEN <<"Cleared">> ELSE <<>>)
        \o <<"NodesWritten", "EdgesWritten", "Reconciled", "Indexed", "Verified">>

\* How many phases have completed when the step at p runs.
CompletedBefore(p) ==
    LET c == IF clear_existing THEN 1 ELSE 0
    IN  CASE p \in {"main", "connect"} -> 0
          [] p = "load" -> 1
          [] p \in {"clear_rels", "clear_nodes"} -> 2
          [] p = "nodes" -> 2 + c
          [] p = "edges" -> 3 + c
          [] p \in {"cleanup_nodes", "cleanup_rels"} -> 4 + c
          [] p = "index" -> 5 + c
          [] p = "verify" -> 6 + c
          [] OTHER -> 7 + c

C7_PhasesInOrder ==
    /\ Len(trace) <= Len(PhaseOrder)
    /\ trace = SubSeq(PhaseOrder, 1, Len(trace))
    /\ pc \in RunningPcs => Len(trace) = CompletedBefore(pc)
    /\ failed.phase # "none" =>
          /\ pc = "exit"
          /\ exit_code # 0
          /\ surfaced.kind # "none"
          /\ Len(trace) = CompletedBefore(failed.phase)

C7_Witness ==
    /\ pc = "exit"
    /\ failed.phase = "edges"
    /\ clear_existing
    /\ trace = <<"Connected", "Loaded", "Cleared", "NodesWritten">>
    /\ exit_code = 1

(***************************************************************************)
(* C8: when a write phase stops at chunk c, the store holds the writes of  *)
(* the chunks before c, in source order, on top of what the phase found    *)
(* (and those of chunk c when the server applied it before the round trip  *)
(* failed), and nothing of a later chunk; no later chunk is attempted.     *)
(***************************************************************************)
RECURSIVE NodesWritten(_, _)
NodesWritten(ns, n) ==
    IF n = 0 THEN ns
    ELSE MergeNode(NodesWritten(ns, n - 1), graph.nodes[n].id,
                   IF single_mode
                      THEN prepare_node_data(graph.nodes[n].id, graph.nodes[n].attrs)
                      ELSE BatchNodeData(graph.nodes[n]))

RECURSIVE RelsWritten(_, _, _)
RelsWritten(ns, rs, n) ==
    IF n = 0 THEN rs
    ELSE MergeRel(ns, RelsWritten(ns, rs, n - 1), edges[n].source, edges[n].target,
                  prepare_edge_data(edges[n].attrs))

C8_StoppedPhaseKeepsEarlierChunks ==
    /\ (pc = "exit" /\ failed.phase = "nodes") =>
          LET size == IF single_mode THEN 1 ELSE NodeBatchSize
              lo == failed.chunk * size
              hi == Min(lo + size, Len(graph.nodes))
          IN  /\ nodes \in {NodesWritten(phase_start.nodes, lo),
                            NodesWritten(phase_start.nodes, hi)}
              /\ rels = phase_start.rels
              /\ i = lo
              /\ lo < Len(graph.nodes)
    /\ (pc = "exit" /\ failed.phase = "edges") =>
          LET size == IF single_mode THEN 1 ELSE EdgeBatchSize
              lo == failed.chunk * size
              hi == Min(lo + size, Len(edges))
          IN  /\ rels \in {RelsWritten(nodes, phase_start.rels, lo),
                           RelsWritten(nodes, phase_start.rels, hi)}
              /\ nodes = phase_start.nodes
              /\ i = lo
              /\ lo < Len(edges)

\* A node phase stopped at its second chunk with the first one stored and
\* the second not.
C8_Witness ==
    /\ pc = "exit"
    /\ failed.phase = "nodes"
    /\ failed.chunk = 1
    /\ EmptyWorkspace(run_start)
    /\ MatchEntity(nodes, "A") # {}
    /\ MatchEntity(nodes, "B") = {}

(***************************************************************************)
(* C9: a chunk failure in batch mode surfaces an error that names the      *)
(* failed chunk's index and the cause and suggests single-item mode; the   *)
(* run does not go on in single-item mode by itself.                       *)
(***************************************************************************)
C9_WriteErrorNamesChunk ==
    (pc = "exit" /\ surfaced.kind = "exception" /\ failed.phase \in {"nodes", "edges"}
        /\ ~single_mode) =>
            {"cause", "chunk", "tip"} \subseteq surfaced.names

(***************************************************************************)
(* The edge writer on its own: migrate_edges (migrate_edges_single) of a   *)
(* connected migrator, called on any of the stores above.  In migrate()    *)
(* the node writer has stored every endpoint before the edge writer runs.  *)
(***************************************************************************)
InitEdgeWriter ==
    /\ document \in Documents
    /\ graph = read_graphml(document)
    /\ databases = {}
    /\ cleanup_only = FALSE
    /\ attempt = 1
    /\ prev_exit_code = -1
    /\ \E st \in InitStores :
          /\ nodes = st.nodes
          /\ rels = st.rels
          /\ run_start = st
          /\ phase_start = st
    /\ index = {}
    /\ pc = AfterNodesPc
    /\ run = 1
    /\ clear_existing = FALSE
    /\ single_mode \in BOOLEAN
    /\ driver = "open"
    /\ i = 0
    /\ edges = CanonicalEdges(graph)
    /\ report = NoReport
    /\ exit_code = -1
    /\ surfaced = NoFailure
    /\ failed = NotFailed
    /\ trace = <<>>
    /\ unmatched = {}
    /\ prev = NoReport
    /\ warned = FALSE
    /\ inflight = {}
    /\ issued = <<>>

EdgeRequestFails == pc = "edges" /\ RequestFails
EdgeInterrupt == pc = "edges" /\ Interrupt

NextEdgeWriter ==
    \/ migrate_edges
    \/ migrate_edges_single
    \/ EdgeRequestFails
    \/ EdgeInterrupt

SpecEdgeWriter == InitEdgeWriter /\ [][NextEdgeWriter]_vars

(***************************************************************************)
(* C10: for an edge record one of whose endpoint ids no workspace node     *)
(* carries when it is written, the edge writer creates no relationship and *)
(* no node, and reports the record as failed.                              *)
(***************************************************************************)
C10_MissingEndpointIsReported ==
    unmatched # {} =>
        /\ nodes = phase_start.nodes
        /\ \A e \in unmatched :
              ~\E r \in WorkspaceRels(nodes, rels) \ phase_start.rels :
                  EndpointIds(nodes, r) = <<e.source, e.target>>
        /\ pc = "exit"
        /\ surfaced.kind = "exception"
        /\ failed.phase = "edges"

(***************************************************************************)
(* src/init/create_milvus_db.py: create_database, the one place of the     *)
(* repository that connects in a loop.  Every pass builds a client, lists  *)
(* the databases and creates the database when it is not listed; a pass    *)
(* that raises is followed by time.sleep(2) and the next pass, and after   *)
(* max_retries passes create_database returns False and main() exits 1.    *)
(* The server lists a database once it is created, so the pass that        *)
(* creates it finds it in the second listing.                              *)
(***************************************************************************)
\* max_retries of create_database (30 by default), scaled.
MaxRetries == 3

\* --db-name
DbName == "lightrag"

InitCreateDatabase ==
    /\ document = [nodes |-> <<>>, edges |-> <<>>, directed |-> FALSE]
    /\ graph = read_graphml(document)
    /\ nodes = {}
    /\ rels = {}
    /\ run_start = Store
    /\ phase_start = Store
    /\ databases \in SUBSET {"default", DbName}
    /\ cleanup_only = FALSE
    /\ attempt = 0
    /\ prev_exit_code = -1
    /\ index = {}
    /\ pc = "create_database"
    /\ run = 1
    /\ clear_existing = FALSE
    /\ single_mode = FALSE
    /\ driver = "none"
    /\ i = 0
    /\ edges = <<>>
    /\ report = NoReport
    /\ exit_code = -1
    /\ surfaced = NoFailure
    /\ failed = NotFailed
    /\ trace = <<>>
    /\ unmatched = {}
    /\ prev = NoReport
    /\ warned = FALSE
    /\ inflight = {}
    /\ issued = <<>>

\* A pass of the loop that returns: the database is listed, or is created
\* and then listed.
create_database_returns ==
    /\ pc = "create_database"
    /\ attempt < MaxRetries
    /\ attempt' = attempt + 1
    /\ databases' = databases \cup {DbName}
    /\ pc' = "exit"
    /\ exit_code' = 0
    /\ UNCHANGED <<graph, document, warned, inflight, issued, cleanup_only, prev_exit_code, nodes, rels, index, run,
                   clear_existing, single_mode, driver, i, edges, report, surfaced,
                   failed, trace, unmatched, run_start, phase_start, prev>>

\* A pass of the loop that raises, before or after the server created the
\* database: except Exception prints the attempt and sleeps.
create_database_raises ==
    /\ pc = "create_database"
    /\ attempt < MaxRetries
    /\ attempt' = attempt + 1
    /\ \E created \in BOOLEAN :
          databases' = IF created THEN databases \cup {DbName} ELSE databases
    /\ pc' = "sleep"
    /\ UNCHANGED <<graph, document, warned, inflight, issued, cleanup_only, prev_exit_code, nodes, rels, index, run,
                   clear_existing, single_mode, driver, i, edges, report, exit_code,
                   surfaced, failed, trace, unmatched, run_start, phase_start, prev>>

\* time.sleep(2), then the next pass; after the last pass create_database
\* returns False and main() calls sys.exit(1).
create_database_sleep ==
    /\ pc = "sleep"
    /\ IF attempt < MaxRetries
          THEN /\ pc' = "create_database"
               /\ UNCHANGED <<exit_code, failed>>
          ELSE /\ pc' = "exit"
               /\ exit_code' = 1
               /\ failed' = [phase |-> "create_database", chunk |-> 0]
    /\ UNCHANGED <<graph, document, warned, inflight, issued, databases, cleanup_only, prev_exit_code, attempt,
                   nodes, rels, index, run, clear_existing, single_mode, driver, i,
                   edges, report, surfaced, trace, unmatched, run_start, phase_start,
                   prev>>

NextCreateDatabase ==
    \/ create_database_returns
    \/ create_database_raises
    \/ create_database_sleep

SpecCreateDatabase == InitCreateDatabase /\ [][NextCreateDatabase]_vars

(***************************************************************************)
(* C11: connection establishment retries.  A run of the migration that     *)
(* fails fatally at connection establishment has made more than one        *)
(* attempt: after a failed first attempt the connector tries again, and    *)
(* only the failure of the last attempt is fatal.                          *)
(***************************************************************************)
C11_ConnectRetriesBeforeFatal ==
    (pc = "exit" /\ exit_code = 1 /\ surfaced.kind = "exception"
        /\ failed.phase = "connect") => attempt > 1

(***************************************************************************)
(* --cleanup-only: main() runs cleanup_only(workspace), which connects,    *)
(* runs cleanup_duplicates and disconnects.  It finds the workspace in any *)
(* state: up to MaxCopies nodes for each id, and up to MaxStoredRels       *)
(* DIRECTED relationships between them, two of which may connect the same  *)
(* endpoints.                                                              *)
(***************************************************************************)
\* Most relationships the workspace holds before a clean-up.
MaxStoredRels == 2

\* A relationship between two workspace nodes of ns.
StoredRelCandidates(ns) ==
    {[src |-> ab[1].nid, dst |-> ab[2].nid, type |-> "DIRECTED", k |-> 1,
      props |-> [weight |-> <<"float", "9.0">>]] :
        ab \in {x \in HasLabel(ns, Workspace) \X HasLabel(ns, Workspace) : x[1] # x[2]}}

\* Up to MaxStoredRels relationships of ns: relationships between distinct
\* endpoints and, room permitting, a second one beside one of them.
StoredRelSets(ns) ==
    LET C == StoredRelCandidates(ns)
        singles == {Range(s) : s \in UNION {[1..n -> C] : n \in 0..MaxStoredRels}}
    IN  singles \cup
        UNION {{Q \cup {[r EXCEPT !.k = 2, !.props = [weight |-> <<"float", "3.0">>]]} :
                    r \in Q} : Q \in {S \in singles : Cardinality(S) < MaxStoredRels}}

CleanupStores ==
    UNION {{[nodes |-> StoredNodes(cp), rels |-> {OtherRel} \cup R] :
                R \in StoredRelSets(StoredNodes(cp))} : cp \in [Ids -> 0..MaxCopies]}

\* cleanup_only() is given no file.
NoDocument == [nodes |-> <<>>, edges |-> <<>>, directed |-> FALSE]

InitCleanupOnly ==
    /\ document = NoDocument
    /\ graph = read_graphml(document)
    /\ \E st \in CleanupStores :
          /\ nodes = st.nodes
          /\ rels = st.rels
          /\ run_start = st
          /\ phase_start = st
    /\ databases = {}
    /\ cleanup_only = FALSE
    /\ attempt = 0
    /\ prev_exit_code = -1
    /\ index = {}
    /\ pc = "idle"
    /\ run = 0
    /\ clear_existing = FALSE
    /\ single_mode = FALSE
    /\ driver = "none"
    /\ i = 0
    /\ edges = <<>>
    /\ report = NoReport
    /\ exit_code = -1
    /\ surfaced = NoFailure
    /\ failed = NotFailed
    /\ trace = <<>>
    /\ unmatched = {}
    /\ prev = NoReport
    /\ warned = FALSE
    /\ inflight = {}
    /\ issued = <<>>

\* main() with --cleanup-only.
CleanupMain ==
    /\ pc \in {"idle", "exit"}
    /\ run + 1 \in RunIds
    /\ run' = run + 1
    /\ cleanup_only' = TRUE
    /\ clear_existing' = FALSE
    /\ single_mode' = FALSE
    /\ driver' = "none"
    /\ attempt' = 0
    /\ i' = 0
    /\ edges' = <<>>
    /\ prev' = report
    /\ prev_exit_code' = exit_code
    /\ report' = NoReport
    /\ trace' = <<>>
    /\ unmatched' = {}
    /\ run_start' = Store
    /\ phase_start' = Store
    /\ pc' = "connect"
    /\ exit_code' = -1
    /\ surfaced' = NoFailure
    /\ failed' = NotFailed
    /\ warned' = FALSE
    /\ inflight' = {}
    /\ issued' = <<>>
    /\ UNCHANGED <<graph, document, databases, nodes, rels, index>>

NextCleanupOnly ==
    \/ CleanupMain
    \/ Connect
    \/ ConnectFails
    \/ cleanup_duplicate_nodes
    \/ cleanup_duplicate_rels
    \/ RequestFails
    \/ Interrupt

SpecCleanupOnly == InitCleanupOnly /\ [][NextCleanupOnly]_vars

\* cleanup_only() has returned.
CleanedUp == cleanup_only /\ pc = "exit" /\ exit_code = 0

\* The entity ids the workspace nodes of ns carry.
WorkspaceIds(ns) == {EntityIdOf(n) : n \in HasLabel(ns, Workspace)}

\* The (source id, target id) pairs the DIRECTED relationships of the
\* workspace connect.
ConnectedIds(st) ==
    {EndpointIds(st.nodes, r) : r \in WorkspaceRels(st.nodes, st.rels)}

(***************************************************************************)
(* C12: after cleanup_duplicates completes, every entity_id of the         *)
(* workspace is carried by exactly one node, every (a, b) pair of          *)
(* workspace nodes is connected by at most one DIRECTED relationship       *)
(* a -> b, and the ids and the connected id pairs present before are still *)
(* present.                                                                *)
(***************************************************************************)
C12_CleanupKeepsOnePerGroup ==
    CleanedUp =>
        /\ \A n, m \in HasLabel(nodes, Workspace) :
              EntityIdOf(n) = EntityIdOf(m) => n = m
        /\ \A r, q \in WorkspaceRels(nodes, rels) :
              (r.src = q.src /\ r.dst = q.dst) => r = q
        /\ WorkspaceIds(nodes) = WorkspaceIds(run_start.nodes)
        /\ ConnectedIds(run_start) \subseteq ConnectedIds(Store)

(***************************************************************************)
(* C13: cleanup_duplicates is idempotent.  A clean-up that follows a       *)
(* completed clean-up deletes nothing: throughout it the store is what the *)
(* first one left.                                                         *)
(***************************************************************************)
C13_SecondCleanupDeletesNothing ==
    (cleanup_only /\ run = 2 /\ prev_exit_code = 0) => Store = run_start

C13_Witness ==
    /\ CleanedUp
    /\ run = 2
    /\ prev_exit_code = 0
    /\ WorkspaceRels(nodes, rels) # {}
    /\ Cardinality(HasLabel(nodes, Workspace)) = Cardinality(Ids)

\* Nodes of the workspace beyond one for each id.
Surplus(ns) == CountNodes(ns) - Cardinality(WorkspaceIds(ns))

\* The workspace nodes whose entity_id no other workspace node carries.
NotDuplicated(ns) ==
    {n \in HasLabel(ns, Workspace) :
        \A m \in HasLabel(ns, Workspace) : EntityIdOf(m) = EntityIdOf(n) => m = n}

(***************************************************************************)
(* C14: --cleanup-only reduces the node count of the workspace by exactly  *)
(* the duplicate surplus; the workspace nodes that are not duplicated and  *)
(* the nodes outside the workspace stay, with their attributes, and no     *)
(* node is added.                                                          *)
(***************************************************************************)
C14_CleanupOnlyRemovesSurplus ==
    CleanedUp =>
        /\ CountNodes(nodes) = CountNodes(run_start.nodes) - Surplus(run_start.nodes)
        /\ NotDuplicated(run_start.nodes) \subseteq nodes
        /\ (run_start.nodes \ HasLabel(run_start.nodes, Workspace)) \subseteq nodes
        /\ nodes \subseteq run_start.nodes

C14_Witness ==
    /\ CleanedUp
    /\ run = 1
    /\ Surplus(run_start.nodes) > 0
    /\ NotDuplicated(run_start.nodes) # {}
    /\ \E n \in nodes \ HasLabel(nodes, Workspace) :
          EntityIdOf(n) \in WorkspaceIds(run_start.nodes)

(***************************************************************************)
(* C15: verify_migration never mutates state.  Whatever step the run takes *)
(* from the point where verification starts (the verdict, a failed read,   *)
(* an interrupt), the nodes, relationships and attributes of the store and *)
(* the in-memory graph are after it what they were before it.              *)
(***************************************************************************)
C15_VerifyMutatesNothing ==
    [][pc = "verify" => (nodes' = nodes /\ rels' = rels /\ graph' = graph)]_vars

C15_Witness ==
    /\ Completed
    /\ ~report.success
    /\ report.neo4j_edge_count > 0
    /\ WorkspaceRels(nodes, rels) # {}

\* The workspace nodes when the node writer of the run started.
NodePhaseStart == IF clear_existing THEN ClearNodes(run_start.nodes) ELSE run_start.nodes

\* The node writer of the run has finished and the duplicates pass has not
\* begun.
NodesJustWritten == pc \in {"edges", "cleanup_nodes"} /\ "NodesWritten" \in Range(trace)

\* The nodes after the first n nodes of the graph are written in the given
\* mode: batch_data records in batch mode, prepare_node_data's in single
\* mode.
RECURSIVE NodesWrittenAs(_, _, _)
NodesWrittenAs(ns, n, single) ==
    IF n = 0 THEN ns
    ELSE MergeNode(NodesWrittenAs(ns, n - 1, single), graph.nodes[n].id,
                   IF single
                      THEN prepare_node_data(graph.nodes[n].id, graph.nodes[n].attrs)
                      ELSE BatchNodeData(graph.nodes[n]))

(***************************************************************************)
(* C16: single-item mode and batch mode are equivalent on the store.  The  *)
(* nodes (with their attribute values) a run has stored when its node      *)
(* writer finishes are the nodes the other mode stores from the same       *)
(* workspace state and the same graph.  (The two edge writers send the     *)
(* same records through the same query, item by item or chunk by chunk.)   *)
(***************************************************************************)
C16_ModesStoreTheSame ==
    NodesJustWritten =>
        nodes = NodesWrittenAs(NodePhaseStart, Len(graph.nodes), ~single_mode)

\* Batch sizes to compare, up to and beyond the length of the lists.
MaxBatchSize == 3

\* The nodes after migrate_nodes with batch size b.
RECURSIVE ChunkedNodes(_, _, _)
ChunkedNodes(ns, lo, b) ==
    IF lo >= Len(graph.nodes) THEN ns
    ELSE ChunkedNodes(WriteNodes(ns, graph, lo, Min(lo + b, Len(graph.nodes)), FALSE),
                      lo + b, b)

\* The relationships after migrate_edges with batch size b.
RECURSIVE ChunkedRels(_, _, _, _)
ChunkedRels(ns, rs, lo, b) ==
    IF lo >= Len(edges) THEN rs
    ELSE ChunkedRels(ns, WriteEdges(ns, rs, edges, lo, Min(lo + b, Len(edges))),
                     lo + b, b)

(***************************************************************************)
(* C17: chunking invariance.  The nodes and the relationships (with their  *)
(* attributes) a batch-mode run has stored when its writers finish are     *)
(* those every batch size stores from the same workspace state and graph,  *)
(* whether the records naming one identity fall in one chunk or in several.*)
(***************************************************************************)
C17_ChunkingInvariance ==
    (NodesJustWritten /\ ~single_mode) =>
        \A b \in 1..MaxBatchSize :
            /\ nodes = ChunkedNodes(NodePhaseStart, 0, b)
            /\ (pc = "cleanup_nodes") =>
                  rels = ChunkedRels(nodes, phase_start.rels, 0, b)

\* Two records of the edge list name the same relationship and the
\* workspace held that id more than once.
C17_Witness ==
    /\ NodesJustWritten
    /\ ~single_mode
    /\ pc = "cleanup_nodes"
    /\ \E j, k \in DOMAIN edges :
          j < k /\ edges[j].source = edges[k].source /\ edges[j].target = edges[k].target
    /\ Surplus(nodes) > 0

\* clear_workspace has just returned: the next step is the first chunk of
\* the node writer.
JustCleared ==
    /\ clear_existing
    /\ pc = "nodes"
    /\ i = 0
    /\ trace # <<>>
    /\ trace[Len(trace)] = "Cleared"

(***************************************************************************)
(* C18: with --clear, when clear_workspace returns the workspace holds no  *)
(* node and no relationship, whatever it held before (and the store holds  *)
(* no relationship without its endpoints); so a completed run that clears  *)
(* first ends, like a completed run into an empty workspace, with as many  *)
(* nodes as the graph has and one relationship for each of its canonical   *)
(* endpoint pairs: two such runs of one graph end with the same counts.    *)
(***************************************************************************)
C18_ClearEmptiesWorkspace ==
    /\ JustCleared =>
          /\ HasLabel(nodes, Workspace) = {}
          /\ \A r \in rels : {r.src, r.dst} \subseteq {n.nid : n \in nodes}
          /\ nodes = run_start.nodes \ HasLabel(run_start.nodes, Workspace)
    /\ (Completed /\ (clear_existing \/ EmptyWorkspace(run_start))) =>
          /\ report.neo4j_node_count = number_of_nodes(graph)
          /\ report.neo4j_edge_count = Cardinality(CanonicalPairs(graph))

C18_Witness ==
    /\ Completed
    /\ run = 2
    /\ clear_existing
    /\ prev.verified
    /\ WorkspaceRels(run_start.nodes, run_start.rels) # {}
    /\ report.neo4j_edge_count > 0

(***************************************************************************)
(* C19: a load failure is fatal before any write.  When the run stops      *)
(* because the file is missing (main, load_graphml) or cannot be parsed,   *)
(* the store is what it was when the run started, also with --clear.       *)
(***************************************************************************)
C19_LoadFailureWritesNothing ==
    (pc = "exit" /\ surfaced.kind = "exception" /\ failed.phase \in {"main", "load"}) =>
        /\ Store = run_start
        /\ exit_code = 1
        /\ ~\E k \in DOMAIN trace : trace[k] \in {"Cleared", "NodesWritten"}

C19_Witness ==
    /\ pc = "exit"
    /\ surfaced.kind = "exception"
    /\ failed.phase = "load"
    /\ clear_existing
    /\ WorkspaceRels(nodes, rels) # {}

(***************************************************************************)
(* Runs on a malformed document: the last node entry repeats the id of the *)
(* first.  The workspace is empty when the first run starts.               *)
(***************************************************************************)
InitMalformed ==
    /\ document \in MalformedDocuments
    /\ graph = read_graphml(document)
    /\ \E st \in {x \in InitStores : HasLabel(x.nodes, Workspace) = {}} :
          /\ nodes = st.nodes
          /\ rels = st.rels
          /\ run_start = st
          /\ phase_start = st
    /\ databases = {}
    /\ cleanup_only = FALSE
    /\ attempt = 0
    /\ prev_exit_code = -1
    /\ index = {}
    /\ pc = "idle"
    /\ run = 0
    /\ clear_existing = FALSE
    /\ single_mode = FALSE
    /\ driver = "none"
    /\ i = 0
    /\ edges = <<>>
    /\ report = NoReport
    /\ exit_code = -1
    /\ surfaced = NoFailure
    /\ failed = NotFailed
    /\ trace = <<>>
    /\ unmatched = {}
    /\ prev = NoReport
    /\ warned = FALSE
    /\ inflight = {}
    /\ issued = <<>>

SpecMalformed == InitMalformed /\ [][Next]_vars

\* Two node entries of the document carry the same id.
HasDuplicateIds(doc) ==
    \E j, k \in DOMAIN doc.nodes : j # k /\ doc.nodes[j].id = doc.nodes[k].id

(***************************************************************************)
(* C20: the loader fails on a document in which two node entries carry the *)
(* same id: load_graphml never returns a graph for it, and the migration   *)
(* does not go on with the two entries merged into one node.               *)
(***************************************************************************)
C20_DuplicateIdsFailLoad ==
    HasDuplicateIds(document) => ~("Loaded" \in Range(trace))

(***************************************************************************)
(* C21: a failure of index creation is non-fatal: when the create-index    *)
(* request fails the warning is printed and the run goes on to             *)
(* verification with the store and the exit status untouched; the verdict  *)
(* of a completed run is the one computed from the store and the source    *)
(* alone and its exit status is 0, whether the index was created or not;   *)
(* creating the index when it already exists changes nothing.              *)
(***************************************************************************)
C21_IndexFailureIsNotFatal ==
    /\ [][((pc = "index" /\ warned') =>
               (pc' = "verify" /\ nodes' = nodes /\ rels' = rels /\
                exit_code' = exit_code /\ driver' = driver))
           /\ ((pc = "index" /\ pc' = "verify" /\ Workspace \in index) =>
               index' = index)]_vars
    /\ [](Completed =>
            (report = VerifyReport(nodes, rels, graph) /\ exit_code = 0))

C21_Witness ==
    /\ Completed
    /\ warned
    /\ Workspace \notin index
    /\ report.success
    /\ exit_code = 0

(***************************************************************************)
(* The two writers with every request taken in two steps: session.run      *)
(* sends the chunk, and the await returns when the server has answered.    *)
(* The loop variable moves on when the await returns.                      *)
(***************************************************************************)
\* A loop that does not wait for the answer before it goes round again.
Awaited_Never == TRUE

\* await session.run(...): the loop goes round again only when the request
\* it sent has been answered.
Awaited == inflight = {}

\* The number of items of the phase's list (graph.nodes(), unique_edges).
PhaseLen(phase) == IF phase = "nodes" THEN Len(graph.nodes) ELSE Len(edges)

\* batch_size of the phase's loop (1 in single mode).
PhaseBatch(phase) ==
    IF single_mode THEN 1
    ELSE IF phase = "nodes" THEN NodeBatchSize ELSE EdgeBatchSize

\* range(0, len, batch_size): the offset after the last chunk sent.
NextOffset(phase) ==
    LET mine == {k \in 1..Len(issued) : issued[k].phase = phase}
    IN  IF mine = {} THEN 0 ELSE issued[Max(mine)].hi

\* items[i:i + batch_size] handed to session.run
Request(phase) ==
    [phase |-> phase, lo |-> NextOffset(phase),
     hi |-> Min(NextOffset(phase) + PhaseBatch(phase), PhaseLen(phase)),
     seq |-> Len(issued) + 1]

SendChunk ==
    /\ pc \in {"nodes", "edges"}
    /\ Awaited
    /\ NextOffset(pc) < PhaseLen(pc)
    /\ inflight' = inflight \cup {Request(pc)}
    /\ issued' = Append(issued, Request(pc))
    /\ UNCHANGED <<graph, document, warned, databases, cleanup_only,
                   prev_exit_code, attempt, nodes, rels, index, pc, run,
                   clear_existing, single_mode, driver, i, edges, report,
                   exit_code, surfaced, failed, trace, unmatched, run_start,
                   phase_start, prev>>

\* The server answers the request of the chunk at offset i.
Answered ==
    /\ \E r \in inflight :
          /\ r.phase = pc
          /\ r.lo = i
          /\ inflight' = inflight \ {r}
    /\ UNCHANGED issued

NodesAnswered == Answered /\ NodeStep
EdgesAnswered == Answered /\ EdgeStep

\* The request raises, or the task is interrupted while it waits: the
\* server has applied the chunk or not, and the run ends.
WriteFails ==
    /\ pc \in {"nodes", "edges"}
    /\ \E r \in inflight :
          /\ r.phase = pc
          /\ r.lo = i
          /\ inflight' = inflight \ {r}
    /\ \E st \in {Store} \cup Effects :
          /\ nodes' = st.nodes
          /\ rels' = st.rels
    /\ \/ Raise(driver)
       \/ /\ surfaced' = [kind |-> "interrupt", names |-> {}]
          /\ failed' = [phase |-> pc, chunk |-> ChunkIndex]
          /\ driver' = Disconnected(driver)
          /\ pc' = "exit"
          /\ exit_code' = 1
    /\ UNCHANGED <<graph, document, warned, issued, databases, cleanup_only,
                   prev_exit_code, attempt, index, run, clear_existing,
                   single_mode, i, edges, report, trace, unmatched, run_start,
                   phase_start, prev>>

\* migrate() has connected, loaded the file and reached the node writer.
InitWriters ==
    /\ document \in Documents
    /\ graph = read_graphml(document)
    /\ databases = {}
    /\ cleanup_only = FALSE
    /\ attempt = 1
    /\ prev_exit_code = -1
    /\ \E st \in InitStores :
          /\ nodes = st.nodes
          /\ rels = st.rels
          /\ run_start = st
          /\ phase_start = st
    /\ index = {}
    /\ pc = NodesPc
    /\ run = 1
    /\ clear_existing = FALSE
    /\ single_mode \in BOOLEAN
    /\ driver = "open"
    /\ i = 0
    /\ edges = IF NodesPc = "nodes" THEN <<>> ELSE CanonicalEdges(graph)
    /\ report = NoReport
    /\ exit_code = -1
    /\ surfaced = NoFailure
    /\ failed = NotFailed
    /\ trace = <<"Connected", "Loaded">> \o NodesTrace
    /\ unmatched = {}
    /\ prev = NoReport
    /\ warned = FALSE
    /\ inflight = {}
    /\ issued = <<>>

NextWriters ==
    \/ SendChunk
    \/ NodesAnswered
    \/ EdgesAnswered
    \/ WriteFails

SpecWriters == InitWriters /\ [][NextWriters]_vars

(***************************************************************************)
(* C22: the workflow has at most one outstanding request at any time: the  *)
(* only request that can be outstanding is the last one sent, the chunks   *)
(* of a phase are sent in source order, each starting where the one before *)
(* ended, the node chunks before the edge chunks, and the loop stands at   *)
(* the chunk that is outstanding.                                          *)
(***************************************************************************)
C22_OneOutstandingRequest ==
    /\ Cardinality(inflight) <= 1
    /\ \A r \in inflight : r = issued[Len(issued)] /\ r.phase = pc /\ r.lo = i
    /\ \A k \in 1..Len(issued) :
          /\ issued[k].seq = k
          /\ issued[k].lo < issued[k].hi
          /\ (k = 1 \/ issued[k - 1].phase # issued[k].phase) => issued[k].lo = 0
    /\ \A k \in 1..(Len(issued) - 1) :
          /\ issued[k].phase = issued[k + 1].phase =>
                issued[k + 1].lo = issued[k].hi
          /\ issued[k].phase = "edges" => issued[k + 1].phase = "edges"

C22_Witness ==
    /\ pc = "edges"
    /\ i > 0
    /\ Cardinality(inflight) = 1
    /\ Len(issued) >= 3

(***************************************************************************)
(* C23: for a directed source graph the canonicalizer hands the edge       *)
(* writer the edges of the graph unchanged: no endpoints swapped, no       *)
(* record dropped.  A completed run on a graph with the edges (a, b) and   *)
(* (b, a) leaves exactly one relationship a -> b and exactly one b -> a    *)
(* between the workspace nodes.                                            *)
(***************************************************************************)
C23_DirectedEdgesPassThrough ==
    /\ (graph.directed /\ EdgesHanded) => edges = graph.edges
    /\ (graph.directed /\ Completed) =>
          \A e \in Range(graph.edges) :
              Cardinality({r \in WorkspaceRels(nodes, rels) :
                              EndpointIds(nodes, r) = <<e.source, e.target>>}) = 1

C23_Witness ==
    /\ graph.directed
    /\ Completed
    /\ \E j, k \in DOMAIN graph.edges :
          /\ graph.edges[j].source = graph.edges[k].target
          /\ graph.edges[j].target = graph.edges[k].source
    /\ ConnectedIds(Store) = {<<"A", "B">>, <<"B", "A">>}
    /\ Cardinality(WorkspaceRels(nodes, rels)) = 2

(***************************************************************************)
(* The two writers on graphs of three nodes and up to MaxWideEdges edge    *)
(* records, every record with attributes of its own, written into an empty *)
(* workspace by a connected migrator.                                      *)
(***************************************************************************)
MaxWideEdges == 3

WideIdOrder == <<"A", "B", "C">>

\* The attributes of the k-th edge record: told apart by their description.
WideEdgeAttrsAt(k) ==
    IF k = 1 THEN [weight |-> <<"float", "2.0">>, description |-> <<"str", "d">>]
    ELSE IF k = 2 THEN [keywords |-> <<"str", "k">>, description |-> <<"str", "d2">>]
    ELSE [weight |-> <<"str", "heavy">>]

WideGraphs ==
    LET ids == Range(WideIdOrder)
        pairs == {pr \in ids \X ids : pr[1] # pr[2]}
    IN  {[nodes |-> [k \in DOMAIN WideIdOrder |->
                        [id |-> WideIdOrder[k], attrs |-> NodeAttrs]],
          edges |-> [k \in DOMAIN sq |->
                        [source |-> sq[k][1], target |-> sq[k][2],
                         attrs |-> WideEdgeAttrsAt(k)]],
          directed |-> d] :
            sq \in UNION {[1..n -> pairs] : n \in 0..MaxWideEdges}, d \in BOOLEAN}

InitWide ==
    /\ document \in WideGraphs
    /\ graph = read_graphml(document)
    /\ databases = {}
    /\ cleanup_only = FALSE
    /\ attempt = 1
    /\ prev_exit_code = -1
    /\ nodes = {}
    /\ rels = {}
    /\ run_start = [nodes |-> {}, rels |-> {}]
    /\ phase_start = [nodes |-> {}, rels |-> {}]
    /\ index = {}
    /\ pc = "nodes"
    /\ run = 1
    /\ clear_existing = FALSE
    /\ single_mode \in BOOLEAN
    /\ driver = "open"
    /\ i = 0
    /\ edges = <<>>
    /\ report = NoReport
    /\ exit_code = -1
    /\ surfaced = NoFailure
    /\ failed = NotFailed
    /\ trace = <<"Connected", "Loaded">>
    /\ unmatched = {}
    /\ prev = NoReport
    /\ warned = FALSE
    /\ inflight = {}
    /\ issued = <<>>

NextWide ==
    \/ migrate_nodes
    \/ migrate_nodes_single
    \/ migrate_edges
    \/ migrate_edges_single

SpecWide == InitWide /\ [][NextWide]_vars

\* The (source, target) key a record of the graph normalizes to.
KeyOf(e) == IF StrLeq(e.source, e.target) THEN <<e.source, e.target>>
            ELSE <<e.target, e.source>>

\* The place in the graph's edge list of the first record with the key.
FirstOccurrence(key) ==
    CHOOSE k \in DOMAIN graph.edges :
        /\ KeyOf(graph.edges[k]) = key
        /\ \A j \in 1..(k - 1) : KeyOf(graph.edges[j]) # key

(***************************************************************************)
(* C24: when several edge records of an undirected graph normalize to the  *)
(* same (source, target) key, the one record handed to the edge writer     *)
(* carries exactly the attributes of the first of them in the order of the *)
(* graph's edge list, the records handed over stand in the order of their  *)
(* first occurrences, and the relationship written into an empty workspace *)
(* carries the coerced attributes of the first occurrence only.            *)
(***************************************************************************)
C24_FirstOccurrenceWins ==
    (~graph.directed /\ EdgesHanded) =>
        /\ \A k \in DOMAIN edges :
              edges[k].attrs =
                 graph.edges[FirstOccurrence(<<edges[k].source, edges[k].target>>)].attrs
        /\ \A j, k \in DOMAIN edges :
              j < k => FirstOccurrence(<<edges[j].source, edges[j].target>>)
                         < FirstOccurrence(<<edges[k].source, edges[k].target>>)
        /\ "EdgesWritten" \in Range(trace) =>
              \A r \in WorkspaceRels(nodes, rels) :
                  r.props = prepare_edge_data(
                                graph.edges[FirstOccurrence(EndpointIds(nodes, r))].attrs)

C24_Witness ==
    /\ ~graph.directed
    /\ "EdgesWritten" \in Range(trace)
    /\ Len(graph.edges) = 3
    /\ KeyOf(graph.edges[1]) = KeyOf(graph.edges[3])
    /\ KeyOf(graph.edges[1]) # KeyOf(graph.edges[2])
    /\ graph.edges[1].source # graph.edges[3].source
    /\ Len(edges) = 2
    /\ edges[1].attrs = graph.edges[1].attrs
    /\ Cardinality(WorkspaceRels(nodes, rels)) = 2

(***************************************************************************)
(* The two writers on a directed graph of two nodes and two edge records,  *)
(* A -> B and B -> A, whose attributes range over the kinds of value a     *)
(* loaded graph can hold, written into an empty workspace.                 *)
(***************************************************************************)
\* weight: absent, or one of these values.
WeightValues ==
    {<<"float", "2.0">>, <<"int", "2">>, <<"str", "1.0">>, <<"str", "heavy">>,
     <<"str", "">>, <<"none", "">>, <<"bool", "True">>, <<"list", "[2]">>}

\* keywords: absent, or one of these values.
KeywordValues == {<<"str", "k">>, <<"none", "">>, <<"list", "[\"k\"]">>}

EdgeAttrChoices ==
    {[x \in {} |-> <<>>]}
    \cup {[weight |-> w] : w \in WeightValues}
    \cup {[keywords |-> kw] : kw \in KeywordValues}
    \cup {[weight |-> w, keywords |-> kw] : w \in WeightValues, kw \in KeywordValues}

CoercionGraphs ==
    {[nodes |-> [k \in DOMAIN IdOrder |-> [id |-> IdOrder[k], attrs |-> NodeAttrs]],
      edges |-> <<[source |-> "A", target |-> "B", attrs |-> a1],
                  [source |-> "B", target |-> "A", attrs |-> a2]>>,
      directed |-> TRUE] : a1, a2 \in EdgeAttrChoices}

InitCoercion ==
    /\ document \in CoercionGraphs
    /\ graph = read_graphml(document)
    /\ databases = {}
    /\ cleanup_only = FALSE
    /\ attempt = 1
    /\ prev_exit_code = -1
    /\ nodes = {}
    /\ rels = {}
    /\ run_start = [nodes |-> {}, rels |-> {}]
    /\ phase_start = [nodes |-> {}, rels |-> {}]
    /\ index = {}
    /\ pc = "nodes"
    /\ run = 1
    /\ clear_existing = FALSE
    /\ single_mode \in BOOLEAN
    /\ driver = "open"
    /\ i = 0
    /\ edges = <<>>
    /\ report = NoReport
    /\ exit_code = -1
    /\ surfaced = NoFailure
    /\ failed = NotFailed
    /\ trace = <<"Connected", "Loaded">>
    /\ unmatched = {}
    /\ prev = NoReport
    /\ warned = FALSE
    /\ inflight = {}
    /\ issued = <<>>

SpecCoercion == InitCoercion /\ [][NextWide]_vars

\* The weight the record of an edge with these attributes must carry.
ExpectedWeight(attrs) ==
    IF "weight" \notin DOMAIN attrs THEN <<"float", "1.0">>
    ELSE IF attrs["weight"] \in {<<"float", "2.0">>, <<"int", "2">>}
            THEN <<"float", "2.0">>
    ELSE <<"float", "1.0">>

\* The relationships stored for the edge record.
StoredFor(e) ==
    {r \in WorkspaceRels(nodes, rels) : EndpointIds(nodes, r) = <<e.source, e.target>>}

(***************************************************************************)
(* C25: every edge record produced by prepare_edge_data has a weight       *)
(* holding a number: the parsed value when the source weight parses as a   *)
(* float, 1.0 when it is absent, null or does not parse.  A bad weight     *)
(* fails neither the record nor its batch (the edge writer finishes and    *)
(* both relationships are stored), and every other field of the record is  *)
(* the coerced source value.                                               *)
(***************************************************************************)
C25_WeightIsAlwaysNumeric ==
    /\ \A e \in Range(edges) :
          LET rec == prepare_edge_data(e.attrs)
          IN  /\ DOMAIN rec = DOMAIN e.attrs \cup {"weight"}
              /\ rec["weight"] = ExpectedWeight(e.attrs)
              /\ \A k \in DOMAIN e.attrs \ {"weight"} : rec[k] = Coerce(e.attrs[k])
    /\ \A e \in Range(edges) : \A r \in StoredFor(e) :
          /\ r.props["weight"] = ExpectedWeight(e.attrs)
          /\ \A k \in DOMAIN e.attrs \ {"weight"} : r.props[k] = Coerce(e.attrs[k])
    /\ "EdgesWritten" \in Range(trace) =>
          \A e \in Range(graph.edges) : Cardinality(StoredFor(e)) = 1

C25_Witness ==
    /\ "EdgesWritten" \in Range(trace)
    /\ ~single_mode
    /\ graph.edges[1].attrs = [weight |-> <<"str", "heavy">>, keywords |-> <<"none", "">>]
    /\ graph.edges[2].attrs = [weight |-> <<"int", "2">>]
    /\ \E r \in StoredFor(graph.edges[1]) :
          r.props = [weight |-> <<"float", "1.0">>, keywords |-> <<"str", "">>]
    /\ \E r \in StoredFor(graph.edges[2]) : r.props = [weight |-> <<"float", "2.0">>]

(***************************************************************************)
(* main() called with or without --cleanup-only: runs of migrate() and of  *)
(* cleanup_only() in any order, on a file of at most one edge and the      *)
(* stores whose workspace holds no relationship when the first run starts. *)
(***************************************************************************)
InitAnyRun == Init /\ rels = {OtherRel} /\ Len(document.edges) <= 1

NextAnyRun == Next \/ CleanupMain

SpecAnyRun == InitAnyRun /\ [][NextAnyRun]_vars

(***************************************************************************)
(* C26: in every run of migrate() or cleanup_only(), however it ends, the  *)
(* connection is closed when control is back in main(): the driver is      *)
(* never left open, it is closed whenever connect() had succeeded, and     *)
(* once it is closed the run is over, so no request follows.               *)
(***************************************************************************)
C26_ConnectionAlwaysClosed ==
    /\ pc = "exit" => driver # "open"
    /\ (pc = "exit" /\ "Connected" \in Range(trace)) => driver = "closed"
    /\ driver = "closed" => pc = "exit"
    /\ pc \in RequestPcs \ {"connect"} => driver = "open"

C26_Witness ==
    /\ pc = "exit"
    /\ cleanup_only
    /\ surfaced.kind = "exception"
    /\ failed.phase = "cleanup_rels"
    /\ driver = "closed"
    /\ prev.verified
    /\ ~prev.success

(***************************************************************************)
(* main() called once on a store left by earlier writers: the stores       *)
(* above, with a source_id attribute on the workspace's relationship, an   *)
(* attribute no edge record of the graph supplies.                         *)
(***************************************************************************)
StoresWithRelAttrs ==
    {[st EXCEPT !.rels =
         {IF r = OtherRel THEN r
          ELSE [r EXCEPT !.props = Merge(@, [source_id |-> <<"str", "chunk-1">>])] :
              r \in st.rels}] : st \in InitStores}

InitOneRun ==
    /\ document \in Documents
    /\ graph = read_graphml(document)
    /\ databases = {}
    /\ cleanup_only = FALSE
    /\ attempt = 0
    /\ prev_exit_code = -1
    /\ \E st \in StoresWithRelAttrs :
          /\ nodes = st.nodes
          /\ rels = st.rels
          /\ run_start = st
          /\ phase_start = st
    /\ index = {}
    /\ pc = "idle"
    /\ run = Max(RunIds) - 1
    /\ clear_existing = FALSE
    /\ single_mode = FALSE
    /\ driver = "none"
    /\ i = 0
    /\ edges = <<>>
    /\ report = NoReport
    /\ exit_code = -1
    /\ surfaced = NoFailure
    /\ failed = NotFailed
    /\ trace = <<>>
    /\ unmatched = {}
    /\ prev = NoReport
    /\ warned = FALSE
    /\ inflight = {}
    /\ issued = <<>>

SpecOneRun == InitOneRun /\ [][Next]_vars

\* The nodes that do not carry the workspace label of the run, and the
\* relationships among them.
OtherWorkspaces(st) ==
    LET others == {n \in st.nodes : n.label # Workspace}
    IN  [nodes |-> others,
         rels |-> {r \in st.rels : /\ r.src \in {n.nid : n \in others}
                                    /\ r.dst \in {n.nid : n \in others}}]

(***************************************************************************)
(* C27: workspace isolation: at every point of a migration run on the      *)
(* workspace, with or without --clear and through its reconciliation pass, *)
(* the nodes of the other workspaces, their attributes and the             *)
(* relationships among them are the ones stored when the run started.      *)
(***************************************************************************)
C27_OtherWorkspacesUntouched ==
    /\ OtherWorkspaces(Store) = OtherWorkspaces(run_start)
    /\ OtherWorkspaces(Store) = [nodes |-> {OtherNode}, rels |-> {OtherRel}]

C27_Witness ==
    /\ Completed
    /\ ~clear_existing
    /\ Surplus(run_start.nodes) > 0
    /\ Surplus(nodes) = 0
    /\ \E n \in HasLabel(nodes, Workspace) :
          /\ EntityIdOf(n) = EntityIdOf(OtherNode)
          /\ n.props # OtherNode.props
    /\ \E r \in WorkspaceRels(nodes, rels) : r.props # OtherRel.props
    /\ OtherNode \in nodes
    /\ OtherRel \in rels

\* The record the node writer of the run sends for the node.
NodeRecord(node) ==
    IF single_mode THEN prepare_node_data(node.id, node.attrs) ELSE BatchNodeData(node)

\* The records the migration sends for entity id eid (at most one: ids are
\* unique in the graph).
NodeRecordsFor(eid) ==
    {NodeRecord(graph.nodes[k]) :
        k \in {j \in DOMAIN graph.nodes : <<"str", graph.nodes[j].id>> = eid}}

\* The places in the list handed to the edge writer of the records for the
\* endpoint ids pr.
EdgeRecordsFor(pr) ==
    {k \in DOMAIN edges : <<edges[k].source, edges[k].target>> = pr}

\* The value of attribute a after the records at places ks were applied to
\* a relationship that stored old: the last record supplying a wins.
AfterRecords(old, ks, a) ==
    LET supplying == {k \in ks : a \in DOMAIN prepare_edge_data(edges[k].attrs)}
    IN  IF supplying = {} THEN old[a]
        ELSE prepare_edge_data(edges[Max(supplying)].attrs)[a]

(***************************************************************************)
(* C28: an upsert overwrites only the attributes its record supplies.      *)
(* After the node phase of a run without --clear, a node that was stored   *)
(* when the run started carries, for every attribute of the record sent    *)
(* for its id, the record's value, and for every other attribute the value *)
(* stored before; its attribute set is the union of the two.  After the    *)
(* edge phase the same holds for a relationship that was stored when the   *)
(* run started and the records sent for its endpoints.                     *)
(***************************************************************************)
C28_UpsertKeepsUnsuppliedAttributes ==
    /\ (~clear_existing /\ ~cleanup_only /\ "NodesWritten" \in Range(trace)) =>
          \A n \in HasLabel(nodes, Workspace) :
             \A o \in HasLabel(run_start.nodes, Workspace) :
                o.nid = n.nid =>
                   /\ \A rec \in NodeRecordsFor(EntityIdOf(o)) :
                         /\ DOMAIN n.props = DOMAIN o.props \cup DOMAIN rec
                         /\ \A a \in DOMAIN rec : n.props[a] = rec[a]
                         /\ \A a \in DOMAIN o.props \ DOMAIN rec :
                               n.props[a] = o.props[a]
                   /\ NodeRecordsFor(EntityIdOf(o)) = {} => n.props = o.props
    /\ (~clear_existing /\ ~cleanup_only /\ "EdgesWritten" \in Range(trace)) =>
          \A r \in WorkspaceRels(nodes, rels) :
             \A o \in WorkspaceRels(run_start.nodes, run_start.rels) :
                (o.src = r.src /\ o.dst = r.dst /\ o.k = r.k) =>
                   LET ks == EdgeRecordsFor(EndpointIds(nodes, r))
                       sent == UNION {DOMAIN prepare_edge_data(edges[k].attrs) : k \in ks}
                   IN  /\ DOMAIN r.props = DOMAIN o.props \cup sent
                       /\ \A a \in DOMAIN r.props : r.props[a] = AfterRecords(o.props, ks, a)

C28_Witness ==
    /\ Completed
    /\ ~clear_existing
    /\ \E n \in HasLabel(nodes, Workspace) :
          /\ n \notin run_start.nodes
          /\ \E o \in HasLabel(run_start.nodes, Workspace) : o.nid = n.nid
          /\ n.props["description"] = <<"str", "d">>
          /\ n.props["source_id"] = <<"str", "chunk-1">>
    /\ \E r \in WorkspaceRels(nodes, rels) :
          /\ r \notin run_start.rels
          /\ \E o \in run_start.rels : o.src = r.src /\ o.dst = r.dst /\ o.k = r.k
          /\ r.props["source_id"] = <<"str", "chunk-1">>
          /\ r.props["weight"] = <<"float", "2.0">>

=========================================================================
